---- MODULE Spec2Model ----
(***************************************************************************)
(* A model of the VPN relay of src/index.js: the server's connection       *)
(* registry, its inbound message handler, the broadcast router and the     *)
(* shared key context, together with the part of the client that the       *)
(* handshake and the data path need.                                       *)
(*                                                                         *)
(* Text (what JSON.stringify produces, what a socket carries) is a         *)
(* sequence of one-character strings; a Buffer is a sequence of bytes      *)
(* 0..255.                                                                 *)
(***************************************************************************)
EXTENDS Integers, Sequences, FiniteSets, TLC

\* ------------------------------------------------------------------ bounds
\* Connections the listener accepts in one run.
MaxConnections == 3
\* Frames the users of the clients send in one run (ping, data, other).
MaxSends == 1
\* 'data' events the clients' sockets emit in one run.
MaxReads == 1
\* Distinct outcomes of crypto.randomBytes at process start.
MaxSeed == 1
\* Largest wall-clock value (Date.now()) and ping timestamp drawn.
MaxTime == 2

\* --------------------------------------------------------- small helpers
Min(S) == CHOOSE x \in S : \A y \in S : x <= y

Take(s, n) == SubSeq(s, 1, n)

Drop(s, n) == SubSeq(s, n + 1, Len(s))

\* ------------------------------------------------------------------- hex
HexDigits == <<"0", "1", "2", "3", "4", "5", "6", "7", "8", "9",
               "a", "b", "c", "d", "e", "f">>

\* The value of a hex digit, -1 for any other character.
HexVal(c) ==
    IF \E i \in 1..16 : HexDigits[i] = c
    THEN (CHOOSE i \in 1..16 : HexDigits[i] = c) - 1
    ELSE -1

\* Buffer.prototype.toString('hex'): two lower-case digits per byte.
ToHex(buf) ==
    [i \in 1..(2 * Len(buf)) |->
        IF i % 2 = 1 THEN HexDigits[(buf[(i + 1) \div 2] \div 16) + 1]
                     ELSE HexDigits[(buf[i \div 2] % 16) + 1]]

\* Buffer.from(str, 'hex'): decodes pairs of digits and stops at the first
\* pair that is not hex; a trailing single digit is dropped.
FromHex(str) ==
    LET n   == Len(str) \div 2
        bad == {k \in 1..n : HexVal(str[2 * k - 1]) < 0 \/ HexVal(str[2 * k]) < 0}
        m   == IF bad = {} THEN n ELSE Min(bad) - 1
    IN  [k \in 1..m |-> 16 * HexVal(str[2 * k - 1]) + HexVal(str[2 * k])]

\* ---------------------------------------------------------------- cipher
\* aes-256-cbc: 16-byte blocks, a 32-byte key, a 16-byte IV, PKCS#7 padding.
\* The block permutation is a keyed bytewise affine map, b -> 5b + k mod 256
\* (inverse c -> 205(c - k) mod 256), standing for the AES rounds; chaining
\* and padding are those of CBC.
BlockSize == 16

KeyLen == 32

ByteMod == 256

RECURSIVE Xor(_, _)
Xor(a, b) ==
    IF a = 0 THEN b
    ELSE IF b = 0 THEN a
    ELSE (((a % 2) + (b % 2)) % 2) + 2 * Xor(a \div 2, b \div 2)

XorBlock(x, y) == [i \in 1..BlockSize |-> Xor(x[i], y[i])]

RoundKey(key, i) == (key[i] + key[i + BlockSize]) % ByteMod

EncryptBlock(key, blk) ==
    [i \in 1..BlockSize |-> (5 * blk[i] + RoundKey(key, i)) % ByteMod]

DecryptBlock(key, blk) ==
    [i \in 1..BlockSize |->
        (205 * ((blk[i] + ByteMod - RoundKey(key, i)) % ByteMod)) % ByteMod]

\* PKCS#7: n bytes of value n, n in 1..BlockSize, always added.
Pad(data) ==
    LET n == BlockSize - (Len(data) % BlockSize)
    IN  data \o [i \in 1..n |-> n]

RECURSIVE CbcEncrypt(_, _, _)
CbcEncrypt(key, prev, padded) ==
    IF Len(padded) = 0 THEN << >>
    ELSE LET c == EncryptBlock(key, XorBlock(Take(padded, BlockSize), prev))
         IN  c \o CbcEncrypt(key, c, Drop(padded, BlockSize))

RECURSIVE CbcDecrypt(_, _, _)
CbcDecrypt(key, prev, data) ==
    IF Len(data) = 0 THEN << >>
    ELSE LET c == Take(data, BlockSize)
         IN  XorBlock(DecryptBlock(key, c), prev)
                 \o CbcDecrypt(key, c, Drop(data, BlockSize))

\* cipher.update(data) ++ cipher.final()
Cipher(key, iv, data) == CbcEncrypt(key, iv, Pad(data))

\* decipher.update(data) ++ decipher.final(): final() throws when the input
\* is not a positive number of whole blocks or the padding is malformed.
\* ok = FALSE stands for the thrown error.
Decipher(key, iv, data) ==
    IF Len(data) = 0 \/ Len(data) % BlockSize # 0
    THEN [ok |-> FALSE, buf |-> << >>]
    ELSE LET p == CbcDecrypt(key, iv, data)
             n == p[Len(p)]
         IN  IF n >= 1 /\ n <= BlockSize
                 /\ \A i \in (Len(p) - n + 1)..Len(p) : p[i] = n
             THEN [ok |-> TRUE, buf |-> Take(p, Len(p) - n)]
             ELSE [ok |-> FALSE, buf |-> << >>]

\* ------------------------------------------------------------------ JSON
\* A JSON value is a tagged record: a string (its characters), a number
\* (a natural), a boolean, null, or an object (its members in order, each
\* [k |-> key, v |-> value]). Undefined is what a missing property reads as.
Str(s) == [t |-> "str", v |-> s]

Num(n) == [t |-> "num", v |-> n]

Bool(b) == [t |-> "bool", v |-> b]

Null == [t |-> "null", v |-> 0]

Undefined == [t |-> "undef", v |-> 0]

Obj(members) == [t |-> "obj", v |-> members]

Member(key, val) == [k |-> key, v |-> val]

Digits == <<"0", "1", "2", "3", "4", "5", "6", "7", "8", "9">>

IsDigit(c) == \E i \in 1..10 : Digits[i] = c

DigitVal(c) == (CHOOSE i \in 1..10 : Digits[i] = c) - 1

RECURSIVE Decimal(_)
Decimal(n) ==
    IF n < 10 THEN <<Digits[n + 1]>>
    ELSE Decimal(n \div 10) \o <<Digits[(n % 10) + 1]>>

\* JSON.stringify of the values the program builds: strings without
\* characters that need escaping, naturals, booleans, null, objects.
RECURSIVE Stringify(_)
RECURSIVE StringifyMembers(_)
StringifyMembers(ms) ==
    IF Len(ms) = 0 THEN << >>
    ELSE <<"\"">> \o ms[1].k \o <<"\"", ":">> \o Stringify(ms[1].v)
             \o (IF Len(ms) = 1 THEN << >>
                 ELSE <<",">> \o StringifyMembers(Tail(ms)))

Stringify(val) ==
    CASE val.t = "str"  -> <<"\"">> \o val.v \o <<"\"">>
      [] val.t = "num"  -> Decimal(val.v)
      [] val.t = "bool" -> IF val.v THEN <<"t", "r", "u", "e">>
                                    ELSE <<"f", "a", "l", "s", "e">>
      [] val.t = "null" -> <<"n", "u", "l", "l">>
      [] val.t = "obj"  -> <<"{">> \o StringifyMembers(val.v) \o <<"}">>

\* JSON.parse, by recursive descent over the text: whitespace, strings
\* without escapes, naturals, true/false/null and objects. A parse step
\* yields [ok, val, pos]: pos is the index after the value. Arrays,
\* fractions, exponents, negative numbers and escapes are rejected; the
\* program never writes them.
Whitespace == {" ", "\n", "\t", "\r"}

ParseFail == [ok |-> FALSE, val |-> Undefined, pos |-> 0]

ParseOk(val, pos) == [ok |-> TRUE, val |-> val, pos |-> pos]

RECURSIVE SkipWs(_, _)
SkipWs(s, i) ==
    IF i <= Len(s) /\ s[i] \in Whitespace THEN SkipWs(s, i + 1) ELSE i

\* s[i] is the opening quote; the string ends at the next quote and holds no
\* character that JSON wants escaped.
ParseString(s, i) ==
    LET closing == {j \in (i + 1)..Len(s) : s[j] = "\""}
    IN  IF closing = {} THEN ParseFail
        ELSE LET j == Min(closing)
             IN  IF \E n \in (i + 1)..(j - 1) : s[n] \in {"\\", "\n", "\t", "\r"}
                 THEN ParseFail
                 ELSE ParseOk(Str(SubSeq(s, i + 1, j - 1)), j + 1)

RECURSIVE ParseDigits(_, _, _)
ParseDigits(s, i, acc) ==
    IF i <= Len(s) /\ IsDigit(s[i])
    THEN ParseDigits(s, i + 1, 10 * acc + DigitVal(s[i]))
    ELSE ParseOk(Num(acc), i)

\* s[i] is a digit; a leading 0 ends the number.
ParseNumber(s, i) ==
    IF s[i] = "0" THEN ParseOk(Num(0), i + 1) ELSE ParseDigits(s, i, 0)

ParseLiteral(s, i, word, val) ==
    IF i + Len(word) - 1 <= Len(s) /\ SubSeq(s, i, i + Len(word) - 1) = word
    THEN ParseOk(val, i + Len(word))
    ELSE ParseFail

RECURSIVE ParseValue(_, _)
RECURSIVE ParseMembers(_, _, _)
\* i is the index of the next member's key (whitespace skipped).
ParseMembers(s, i, acc) ==
    IF i > Len(s) \/ s[i] # "\"" THEN ParseFail
    ELSE LET key == ParseString(s, i)
         IN  IF ~key.ok THEN ParseFail
             ELSE LET c == SkipWs(s, key.pos)
                  IN  IF c > Len(s) \/ s[c] # ":" THEN ParseFail
                      ELSE LET val == ParseValue(s, SkipWs(s, c + 1))
                           IN  IF ~val.ok THEN ParseFail
                               ELSE LET e   == SkipWs(s, val.pos)
                                        ms  == Append(acc, Member(key.val.v, val.val))
                                    IN  IF e > Len(s) THEN ParseFail
                                        ELSE IF s[e] = "}" THEN ParseOk(Obj(ms), e + 1)
                                        ELSE IF s[e] = ","
                                             THEN ParseMembers(s, SkipWs(s, e + 1), ms)
                                        ELSE ParseFail

ParseValue(s, i) ==
    IF i > Len(s) THEN ParseFail
    ELSE IF s[i] = "{"
         THEN LET m == SkipWs(s, i + 1)
              IN  IF m <= Len(s) /\ s[m] = "}" THEN ParseOk(Obj(<< >>), m + 1)
                  ELSE ParseMembers(s, m, << >>)
    ELSE IF s[i] = "\"" THEN ParseString(s, i)
    ELSE IF IsDigit(s[i]) THEN ParseNumber(s, i)
    ELSE IF s[i] = "t" THEN ParseLiteral(s, i, <<"t", "r", "u", "e">>, Bool(TRUE))
    ELSE IF s[i] = "f" THEN ParseLiteral(s, i, <<"f", "a", "l", "s", "e">>, Bool(FALSE))
    ELSE IF s[i] = "n" THEN ParseLiteral(s, i, <<"n", "u", "l", "l">>, Null)
    ELSE ParseFail

\* JSON.parse(text): ok = FALSE stands for the SyntaxError it throws.
JSONparse(text) ==
    LET r == ParseValue(text, SkipWs(text, 1))
    IN  IF r.ok /\ SkipWs(text, r.pos) = Len(text) + 1
        THEN [ok |-> TRUE, val |-> r.val]
        ELSE [ok |-> FALSE, val |-> Undefined]

\* message.key: the last member of that name, undefined when there is none
\* or when the value is a string, a number or a boolean.
Get(val, key) ==
    IF val.t # "obj" THEN Undefined
    ELSE LET hits == {n \in 1..Len(val.v) : val.v[n].k = key}
         IN  IF hits = {} THEN Undefined
             ELSE val.v[CHOOSE n \in hits : \A m \in hits : m <= n].v

\* JavaScript truthiness of a value.
Truthy(val) ==
    CASE val.t = "str"   -> Len(val.v) > 0
      [] val.t = "num"   -> val.v # 0
      [] val.t = "bool"  -> val.v
      [] val.t = "obj"   -> TRUE
      [] val.t = "null"  -> FALSE
      [] val.t = "undef" -> FALSE

\* The property names and string values of the wire protocol.
S_type == <<"t", "y", "p", "e">>

S_welcome == <<"w", "e", "l", "c", "o", "m", "e">>

S_clientId == <<"c", "l", "i", "e", "n", "t", "I", "d">>

S_message == <<"m", "e", "s", "s", "a", "g", "e">>

S_encryptionKey == <<"e", "n", "c", "r", "y", "p", "t", "i", "o", "n", "K", "e", "y">>

S_encryptionIV == <<"e", "n", "c", "r", "y", "p", "t", "i", "o", "n", "I", "V">>

S_ping == <<"p", "i", "n", "g">>

S_pong == <<"p", "o", "n", "g">>

S_timestamp == <<"t", "i", "m", "e", "s", "t", "a", "m", "p">>

S_data == <<"d", "a", "t", "a">>

S_encrypted == <<"e", "n", "c", "r", "y", "p", "t", "e", "d">>

S_payload == <<"p", "a", "y", "l", "o", "a", "d">>

S_relay == <<"r", "e", "l", "a", "y">>

S_fromClient == <<"f", "r", "o", "m", "C", "l", "i", "e", "n", "t">>

S_tunnel == <<"t", "u", "n", "n", "e", "l">>

S_request == <<"r", "e", "q", "u", "e", "s", "t">>

S_establish == <<"e", "s", "t", "a", "b", "l", "i", "s", "h">>

S_tunnel_established == <<"t", "u", "n", "n", "e", "l", "_", "e", "s", "t", "a", "b", "l", "i", "s", "h", "e", "d">>

S_status == <<"s", "t", "a", "t", "u", "s">>

S_ready == <<"r", "e", "a", "d", "y">>

S_hello == <<"h", "e", "l", "l", "o">>

S_banner == <<"C", "o", "n", "n", "e", "c", "t", "e", "d", " ", "t", "o", " ", "V", "P", "N", " ", "S", "e", "r", "v", "e", "r">>

\* ----------------------------------------------------------------- state
VARIABLES
    ENCRYPTION_KEY,   \* the server module's key, crypto.randomBytes(32)
    ENCRYPTION_IV,    \* the server module's IV, crypto.randomBytes(16)
    server,           \* VPNServer.server: "null", "listening", "failed" (the
                      \* listener emitted 'error' and is not bound) or "closed"
    exitCode,         \* the server process: "none" while it runs, else its exit
                      \* status in decimal
    clients,          \* VPNServer.clients: identity -> clientInfo
    clientIdCounter,  \* VPNServer.clientIdCounter
    sockets,          \* the accepted sockets, in acceptance order
    wire,             \* per socket: the text in flight from the peer to the server
    peers,            \* per socket: the VPNClient at the other end
    dispatched,       \* per socket: the messages JSON.parse handed to the type switch
    sends,            \* frames the users have sent so far
    reads,            \* 'data' events the clients have handled so far
    sent,             \* per socket: the texts its peer has put on the wire
    seen              \* the sockets that saw end-of-stream, an error or shutdown

vars == <<ENCRYPTION_KEY, ENCRYPTION_IV, server, exitCode, clients, clientIdCounter,
          sockets, wire, peers, dispatched, sends, reads, sent, seen>>

\* crypto.randomBytes(n): one of MaxSeed byte strings of length n.
RandomBytes(n, seed) == [i \in 1..n |-> (seed * (7 * i + 3) + i) % ByteMod]

\* A Buffer variable that may still be null (null is falsy, a Buffer is not).
NullBuf == [ok |-> FALSE, buf |-> << >>]

Buf(b) == [ok |-> TRUE, buf |-> b]

NoClients == [id \in {} |-> 0]

\* ------------------------------------------------------------ the server
\* VPNServer.prototype.encrypt
encrypt(data) == Cipher(ENCRYPTION_KEY, ENCRYPTION_IV, data)

\* decrypt with a catch that returns an empty Buffer in place of null.
decryptEmptyOnError(data) ==
    [ok |-> TRUE, buf |-> Decipher(ENCRYPTION_KEY, ENCRYPTION_IV, data).buf]

\* VPNServer.prototype.decrypt: the error of final() is caught and null is
\* returned (ok = FALSE).
decrypt(data) == Decipher(ENCRYPTION_KEY, ENCRYPTION_IV, data)

\* socket.write(text): nothing goes out on a destroyed socket; the call is
\* counted.
SocketWrite(ss, n, text) ==
    IF ss[n].destroyed THEN [ss EXCEPT ![n].writesAfterDestroy = @ + 1]
    ELSE [ss EXCEPT ![n].written = Append(@, text)]

\* The registry and the sockets, as the server's operations pass them on.
World(cs, ss) == [clients |-> cs, sockets |-> ss]

\* Object.keys(self.clients): the identities as decimal strings, ascending.
RECURSIVE KeysFrom(_, _)
KeysFrom(cs, k) ==
    IF \A id \in DOMAIN cs : id < k THEN << >>
    ELSE IF k \in DOMAIN cs THEN <<Decimal(k)>> \o KeysFrom(cs, k + 1)
    ELSE KeysFrom(cs, k + 1)

ObjectKeys(cs) == KeysFrom(cs, 0)

\* parseInt(key), and the property lookup clients[key], of a decimal string.
parseInt(str) == ParseDigits(str, 1, 0).val.v

\* VPNServer.prototype.sendToClient
sendToClient(w, clientId, data) ==
    IF clientId \in DOMAIN w.clients /\ w.clients[clientId].connected
    THEN LET message == Stringify(data) \o <<"\n">>
         IN  World([w.clients EXCEPT ![clientId].bytesSent = @ + Len(message)],
                   SocketWrite(w.sockets, w.clients[clientId].socket, message))
    ELSE w

\* VPNServer.prototype.broadcastToOthers, over the keys still to visit.
RECURSIVE broadcastKeys(_, _, _, _)
broadcastKeys(w, keys, senderId, data) ==
    IF Len(keys) = 0 THEN w
    ELSE broadcastKeys(
             IF parseInt(Head(keys)) # senderId
             THEN sendToClient(w, parseInt(Head(keys)), data)
             ELSE w,
             Tail(keys), senderId, data)

\* broadcastToOthers comparing the string key with the numeric sender
\* (clientId !== senderId without parseInt): no key equals the sender, here 0.
broadcastToAll(w, senderId, data) ==
    broadcastKeys(w, ObjectKeys(w.clients), 0, data)

broadcastToOthers(w, senderId, data) ==
    broadcastKeys(w, ObjectKeys(w.clients), senderId, data)

\* removeClient that closes the session and leaves its entry in the registry.
removeClientKeepsEntry(w, clientId) ==
    IF clientId \in DOMAIN w.clients
    THEN LET n == w.clients[clientId].socket
         IN  World([w.clients EXCEPT ![clientId].connected = FALSE],
                   IF ~w.sockets[n].destroyed
                   THEN [w.sockets EXCEPT ![n].destroyed = TRUE,
                                          ![n].destroyCalls = @ + 1]
                   ELSE w.sockets)
    ELSE w

\* removeClient that, for an identity no longer in the registry, destroys the
\* socket accepted under that identity once more.
removeClientUnguarded(w, clientId) ==
    IF clientId \in DOMAIN w.clients
    THEN LET n == w.clients[clientId].socket
         IN  World([id \in DOMAIN w.clients \ {clientId} |-> w.clients[id]],
                   [w.sockets EXCEPT ![n].destroyed = TRUE,
                                     ![n].destroyCalls = @ + 1])
    ELSE IF clientId \in 1..Len(w.sockets)
    THEN World(w.clients, [w.sockets EXCEPT ![clientId].destroyed = TRUE,
                                            ![clientId].destroyCalls = @ + 1])
    ELSE w

\* removeClient that destroys the socket and leaves the registry entry as it
\* is.
removeClientDestroyOnly(w, clientId) ==
    IF clientId \in DOMAIN w.clients
    THEN LET n == w.clients[clientId].socket
         IN  World(w.clients,
                   IF ~w.sockets[n].destroyed
                   THEN [w.sockets EXCEPT ![n].destroyed = TRUE,
                                          ![n].destroyCalls = @ + 1]
                   ELSE w.sockets)
    ELSE w

\* removeClient that empties the registry (this.clients = {}) in place of
\* deleting the one entry.
removeClientResetsRegistry(w, clientId) ==
    IF clientId \in DOMAIN w.clients
    THEN LET n == w.clients[clientId].socket
         IN  World(NoClients,
                   IF ~w.sockets[n].destroyed
                   THEN [w.sockets EXCEPT ![n].destroyed = TRUE,
                                          ![n].destroyCalls = @ + 1]
                   ELSE w.sockets)
    ELSE w

\* VPNServer.prototype.removeClient. The clientInfo object is unreachable
\* once deleted, so its connected = false is not kept.
removeClient(w, clientId) ==
    IF clientId \in DOMAIN w.clients
    THEN LET n == w.clients[clientId].socket
         IN  World([id \in DOMAIN w.clients \ {clientId} |-> w.clients[id]],
                   IF ~w.sockets[n].destroyed
                   THEN [w.sockets EXCEPT ![n].destroyed = TRUE,
                                          ![n].destroyCalls = @ + 1]
                   ELSE w.sockets)
    ELSE w

IsStr(val, s) == val.t = "str" /\ val.v = s

PongMessage(now) ==
    Obj(<<Member(S_type, Str(S_pong)), Member(S_timestamp, Num(now))>>)

\* A relay that carries the ciphertext again in place of the plaintext.
RelayCiphertext(clientId, decrypted) ==
    Obj(<<Member(S_type, Str(S_relay)), Member(S_fromClient, Num(clientId)),
          Member(S_data, Str(ToHex(encrypt(decrypted))))>>)

RelayMessage(clientId, decrypted) ==
    Obj(<<Member(S_type, Str(S_relay)), Member(S_fromClient, Num(clientId)),
          Member(S_data, Str(ToHex(decrypted)))>>)

TunnelEstablishedMessage ==
    Obj(<<Member(S_type, Str(S_tunnel_established)),
          Member(S_status, Str(S_ready))>>)

\* The type switch with a tunnel branch that answers through
\* broadcastToOthers in place of sendToClient.
dispatchTunnelToOthers(w, clientId, message, now) ==
    LET type == Get(message, S_type)
    IN  IF IsStr(type, S_ping)
        THEN sendToClient(w, clientId, PongMessage(now))
        ELSE IF IsStr(type, S_data)
        THEN LET payload == Get(message, S_payload)
             IN  IF Truthy(Get(message, S_encrypted)) /\ Truthy(payload)
                 THEN IF payload.t # "str" THEN w
                      ELSE LET decrypted == decrypt(FromHex(payload.v))
                           IN  IF decrypted.ok
                               THEN broadcastToOthers(w, clientId,
                                        RelayMessage(clientId, decrypted.buf))
                               ELSE w
                 ELSE w
        ELSE IF IsStr(type, S_tunnel)
        THEN broadcastToOthers(w, clientId, TunnelEstablishedMessage)
        ELSE w

\* The type switch of handleClientData on a parsed message. Reading .type of
\* null, and Buffer.from of a payload that is not a string, throw a TypeError
\* that the handler's catch swallows: the registry is left as it is.
dispatch(w, clientId, message, now) ==
    LET type == Get(message, S_type)
    IN  IF IsStr(type, S_ping)
        THEN sendToClient(w, clientId, PongMessage(now))
        ELSE IF IsStr(type, S_data)
        THEN LET payload == Get(message, S_payload)
             IN  IF Truthy(Get(message, S_encrypted)) /\ Truthy(payload)
                 THEN IF payload.t # "str" THEN w
                      ELSE LET decrypted == decrypt(FromHex(payload.v))
                           IN  IF decrypted.ok
                               THEN broadcastToOthers(w, clientId,
                                        RelayMessage(clientId, decrypted.buf))
                               ELSE w
                 ELSE w
        ELSE IF IsStr(type, S_tunnel)
        THEN sendToClient(w, clientId, TunnelEstablishedMessage)
        ELSE w

\* Whether JSON.parse(data) returned a value whose .type can be read: of
\* null it cannot.
Dispatches(parsed) == parsed.ok /\ parsed.val.t # "null"

\* handleClientData that hands a data message to the type switch only when
\* the session has had a tunnel request handled before.
handleClientDataTunnelOnly(w, clientId, data, now) ==
    IF clientId \notin DOMAIN w.clients THEN w
    ELSE LET w1     == World([w.clients EXCEPT ![clientId].bytesReceived = @ + Len(data)],
                             w.sockets)
             parsed == JSONparse(data)
             before == dispatched[w.clients[clientId].socket]
         IN  IF /\ Dispatches(parsed)
                /\ IsStr(Get(parsed.val, S_type), S_data)
                       => \E i \in 1..Len(before) : IsStr(Get(before[i], S_type), S_tunnel)
             THEN dispatch(w1, clientId, parsed.val, now)
             ELSE w1

\* handleClientData whose catch closes the session that sent the bytes.
handleClientDataDropsOnError(w, clientId, data, now) ==
    IF clientId \notin DOMAIN w.clients THEN w
    ELSE LET w1     == World([w.clients EXCEPT ![clientId].bytesReceived = @ + Len(data)],
                             w.sockets)
             parsed == JSONparse(data)
         IN  IF Dispatches(parsed) THEN dispatch(w1, clientId, parsed.val, now)
             ELSE removeClient(w1, clientId)

\* handleClientData with a final else branch that closes the session of a
\* message whose type it does not know.
handleClientDataStrict(w, clientId, data, now) ==
    IF clientId \notin DOMAIN w.clients THEN w
    ELSE LET w1     == World([w.clients EXCEPT ![clientId].bytesReceived = @ + Len(data)],
                             w.sockets)
             parsed == JSONparse(data)
         IN  IF ~Dispatches(parsed) THEN w1
             ELSE IF \E type \in {S_ping, S_data, S_tunnel} :
                        IsStr(Get(parsed.val, S_type), type)
             THEN dispatch(w1, clientId, parsed.val, now)
             ELSE removeClient(w1, clientId)

\* VPNServer.prototype.handleClientData
handleClientData(w, clientId, data, now) ==
    IF clientId \notin DOMAIN w.clients THEN w
    ELSE LET w1     == World([w.clients EXCEPT ![clientId].bytesReceived = @ + Len(data)],
                             w.sockets)
             parsed == JSONparse(data)
         IN  IF Dispatches(parsed) THEN dispatch(w1, clientId, parsed.val, now) ELSE w1

\* A welcome that carries a key and an IV generated for the session.
WelcomePerSessionKey(clientId) ==
    Obj(<<Member(S_type, Str(S_welcome)), Member(S_clientId, Num(clientId)),
          Member(S_message, Str(S_banner)),
          Member(S_encryptionKey, Str(ToHex(RandomBytes(KeyLen, MaxSeed + clientId)))),
          Member(S_encryptionIV, Str(ToHex(RandomBytes(BlockSize, MaxSeed + clientId))))>>)

\* A welcome that carries the counter's value before the increment.
WelcomeStaleId(clientId) ==
    Obj(<<Member(S_type, Str(S_welcome)), Member(S_clientId, Num(clientId - 1)),
          Member(S_message, Str(S_banner)),
          Member(S_encryptionKey, Str(ToHex(ENCRYPTION_KEY))),
          Member(S_encryptionIV, Str(ToHex(ENCRYPTION_IV)))>>)

WelcomeMessage(clientId) ==
    Obj(<<Member(S_type, Str(S_welcome)), Member(S_clientId, Num(clientId)),
          Member(S_message, Str(S_banner)),
          Member(S_encryptionKey, Str(ToHex(ENCRYPTION_KEY))),
          Member(S_encryptionIV, Str(ToHex(ENCRYPTION_IV)))>>)

NewSocket(clientId) ==
    [clientId |-> clientId, destroyed |-> FALSE, destroyCalls |-> 0,
     written |-> << >>, writesAfterDestroy |-> 0]

\* A clientInfo whose bytesSent starts at the length of the welcome frame.
NewClientInfoCountsWelcome(clientId, n) ==
    [id |-> clientId, socket |-> n, connected |-> TRUE,
     bytesReceived |-> 0,
     bytesSent |-> Len(Stringify(WelcomeMessage(clientId))) + 1]

NewClientInfo(clientId, n) ==
    [id |-> clientId, socket |-> n, connected |-> TRUE,
     bytesReceived |-> 0, bytesSent |-> 0]

NewPeer ==
    [connected |-> TRUE, clientId |-> Null, encryptionKey |-> NullBuf,
     encryptionIV |-> NullBuf, buffer |-> << >>, nread |-> 0,
     bytesReceived |-> 0, bytesSent |-> 0]

\* An identity taken from the size of the registry.
NextClientIdReused == Cardinality(DOMAIN clients) + 1

\* The next identity: ++self.clientIdCounter.
NextClientId == clientIdCounter + 1

\* VPNServer.prototype.handleConnection, with the socket the listener hands
\* it; the peer's connect callback has set its connected flag.
handleConnection ==
    /\ exitCode = "none"
    /\ server = "listening"
    /\ Len(sockets) < MaxConnections
    /\ LET clientId == NextClientId
           n        == Len(sockets) + 1
       IN  /\ clientIdCounter' = clientId
           /\ clients' = [id \in DOMAIN clients \cup {clientId} |->
                             IF id = clientId THEN NewClientInfo(clientId, n)
                             ELSE clients[id]]
           /\ sockets' = SocketWrite(Append(sockets, NewSocket(clientId)), n,
                                     Stringify(WelcomeMessage(clientId)) \o <<"\n">>)
           /\ wire' = Append(wire, << >>)
           /\ peers' = Append(peers, NewPeer)
           /\ dispatched' = Append(dispatched, << >>)
           /\ sent' = Append(sent, << >>)
    /\ UNCHANGED <<exitCode, ENCRYPTION_KEY, ENCRYPTION_IV, server, sends, reads,
                   seen>>

\* The text in flight after the server's handlers ran: what was on its way to
\* a socket that is now destroyed is discarded with the connection.
Carried(w, ss) == [n \in 1..Len(w) |-> IF ss[n].destroyed THEN << >> ELSE w[n]]

\* What a peer writes reaches the wire unless the socket is destroyed.
Transmit(w, n, text) ==
    IF sockets[n].destroyed THEN w ELSE [w EXCEPT ![n] = @ \o text]

\* The record of the texts (none when nothing was written) peers put on the
\* wire.
Recorded(h, n, text) ==
    IF sockets[n].destroyed \/ Len(text) = 0 THEN h ELSE [h EXCEPT ![n] = Append(@, text)]

\* The lengths at which the text in flight may be cut into a chunk: all of
\* it, its first frame, and the first frame cut in two.
FirstNewline(text) ==
    IF \E i \in 1..Len(text) : text[i] = "\n"
    THEN Min({i \in 1..Len(text) : text[i] = "\n"})
    ELSE Len(text)

CutPoints(text) ==
    {k \in {Len(text), FirstNewline(text), FirstNewline(text) \div 2} : k >= 1}

\* The socket's 'data' handler: a chunk of k characters arrives. destroy()
\* ends all I/O activity on a socket: it emits no more data.
OnData(n, k, now) ==
    /\ exitCode = "none"
    /\ ~sockets[n].destroyed
    /\ k \in CutPoints(wire[n])
    /\ LET data == Take(wire[n], k)
           id   == sockets[n].clientId
           w    == handleClientData(World(clients, sockets), id, data, now)
       IN  /\ clients' = w.clients
           /\ sockets' = w.sockets
           /\ wire' = [wire EXCEPT ![n] = Drop(@, k)]
           /\ dispatched' = IF id \in DOMAIN clients /\ Dispatches(JSONparse(data))
                            THEN [dispatched EXCEPT ![n] = Append(@, JSONparse(data).val)]
                            ELSE dispatched
    /\ UNCHANGED <<exitCode, ENCRYPTION_KEY, ENCRYPTION_IV, server, clientIdCounter, peers, sends, reads,
                   sent, seen>>

\* The socket's 'end' handler.
OnEnd(n) ==
    /\ exitCode = "none"
    /\ seen' = seen \cup {n}
    /\ LET w == removeClient(World(clients, sockets), sockets[n].clientId)
       IN  /\ clients' = w.clients
           /\ sockets' = w.sockets
           /\ wire' = Carried(wire, w.sockets)
    /\ UNCHANGED <<exitCode, ENCRYPTION_KEY, ENCRYPTION_IV, server, clientIdCounter, peers,
                   dispatched, sends, reads,
                   sent>>

\* The socket's 'error' handler; the runtime may already have destroyed the
\* socket when it emits the error.
OnError(n, gone) ==
    /\ exitCode = "none"
    /\ seen' = seen \cup {n}
    /\ LET ss == [sockets EXCEPT ![n].destroyed = @ \/ gone]
           w  == removeClient(World(clients, ss), sockets[n].clientId)
       IN  /\ clients' = w.clients
           /\ sockets' = w.sockets
           /\ wire' = Carried(wire, w.sockets)
    /\ UNCHANGED <<exitCode, ENCRYPTION_KEY, ENCRYPTION_IV, server, clientIdCounter, peers,
                   dispatched, sends, reads,
                   sent>>

\* VPNServer.prototype.getStats: the fold over Object.keys(self.clients).
\* uptime, the process clock, is left out.
RECURSIVE statsKeys(_, _, _)
statsKeys(cs, keys, totals) ==
    IF Len(keys) = 0 THEN totals
    ELSE LET client == cs[parseInt(Head(keys))]
         IN  statsKeys(cs, Tail(keys),
                       [totals EXCEPT
                           !.totalBytesReceived = @ + client.bytesReceived,
                           !.totalBytesSent = @ + client.bytesSent])

getStats(cs) ==
    statsKeys(cs, ObjectKeys(cs),
              [connectedClients |-> Len(ObjectKeys(cs)),
               totalBytesReceived |-> 0, totalBytesSent |-> 0])

\* The outcomes of server.listen(): the port is bound, or the listener emits
\* 'error' (the address is in use).
BindOutcomes == {"bound", "EADDRINUSE"}

\* VPNServer.prototype.start with the callback listen() leads to: the
\* 'listening' callback prints the banner; the 'error' handler prints the
\* error and returns. The statistics timer start() sets keeps the process
\* running in either case.
start(bind) ==
    /\ server = "null"
    /\ server' = IF bind = "bound" THEN "listening" ELSE "failed"
    /\ UNCHANGED <<exitCode, ENCRYPTION_KEY, ENCRYPTION_IV, clients, clientIdCounter, sockets,
                   wire, peers, dispatched, sends, reads,
                   sent, seen>>

\* A shutdown loop that stops after the first key.
removeKeysFirstOnly(w, keys) ==
    IF Len(keys) = 0 THEN w ELSE removeClient(w, parseInt(Head(keys)))

\* VPNServer.prototype.stop: removeClient for every key, then server.close().
RECURSIVE removeKeys(_, _)
removeKeys(w, keys) ==
    IF Len(keys) = 0 THEN w
    ELSE removeKeys(removeClient(w, parseInt(Head(keys))), Tail(keys))

stop ==
    /\ exitCode = "none"
    /\ server \in {"listening", "failed"}
    /\ LET w == removeKeys(World(clients, sockets), ObjectKeys(clients))
       IN  /\ clients' = w.clients
           /\ sockets' = w.sockets
           /\ wire' = Carried(wire, w.sockets)
    /\ server' = "closed"
    /\ seen' = 1..Len(sockets)
    /\ UNCHANGED <<exitCode, ENCRYPTION_KEY, ENCRYPTION_IV, clientIdCounter, peers, dispatched,
                   sends, reads,
                   sent>>

\* The timer the SIGINT and SIGTERM handlers set after calling stop():
\* process.exit(0).
OnExitTimer ==
    /\ server = "closed"
    /\ exitCode = "none"
    /\ exitCode' = "0"
    /\ UNCHANGED <<ENCRYPTION_KEY, ENCRYPTION_IV, server, clients, clientIdCounter,
                   sockets, wire, peers, dispatched, sends, reads, sent, seen>>

\* ------------------------------------------------------------ the client
\* buffer.split('\n'): the pieces between newlines, the last one possibly
\* empty.
RECURSIVE Split(_)
Split(text) ==
    IF \E i \in 1..Len(text) : text[i] = "\n"
    THEN LET i == FirstNewline(text)
         IN  <<Take(text, i - 1)>> \o Split(Drop(text, i))
    ELSE <<text>>

\* line.trim() is a non-empty string.
TrimsToText(line) == \E i \in 1..Len(line) : line[i] \notin Whitespace

TunnelMessage ==
    Obj(<<Member(S_type, Str(S_tunnel)), Member(S_request, Str(S_establish))>>)

PingMessage(timestamp) ==
    Obj(<<Member(S_type, Str(S_ping)), Member(S_timestamp, Num(timestamp))>>)

DataMessage(encrypted) ==
    Obj(<<Member(S_type, Str(S_data)), Member(S_encrypted, Bool(TRUE)),
          Member(S_payload, Str(ToHex(encrypted)))>>)

\* A client and what it has written to its socket in the current handler.
Side(peer, out) == [peer |-> peer, out |-> out]

\* VPNClient.prototype.sendMessage
sendMessage(c, message) ==
    IF c.peer.connected
    THEN LET data == Stringify(message) \o <<"\n">>
         IN  Side([c.peer EXCEPT !.bytesSent = @ + Len(data)], c.out \o data)
    ELSE c

\* encrypt that falls back to a key and an IV of zero bytes while none has
\* been received.
clientEncryptDefaultKey(peer, data) ==
    LET key == IF peer.encryptionKey.ok THEN peer.encryptionKey.buf
               ELSE [i \in 1..KeyLen |-> 0]
        iv  == IF peer.encryptionIV.ok THEN peer.encryptionIV.buf
               ELSE [i \in 1..BlockSize |-> 0]
    IN  IF Len(key) # KeyLen \/ Len(iv) # BlockSize THEN NullBuf
        ELSE Buf(Cipher(key, iv, data))

\* VPNClient.prototype.encrypt: null while the key or the IV is unset;
\* createCipheriv throws on a key or IV of the wrong length (null here too:
\* nothing is sent either way).
clientEncrypt(peer, data) ==
    IF ~peer.encryptionKey.ok \/ ~peer.encryptionIV.ok THEN NullBuf
    ELSE IF Len(peer.encryptionKey.buf) # KeyLen
            \/ Len(peer.encryptionIV.buf) # BlockSize THEN NullBuf
    ELSE Buf(Cipher(peer.encryptionKey.buf, peer.encryptionIV.buf, data))

\* VPNClient.prototype.sendEncryptedData, on the bytes of its argument.
sendEncryptedData(c, data) ==
    LET encrypted == clientEncrypt(c.peer, data)
    IN  IF encrypted.ok THEN sendMessage(c, DataMessage(encrypted.buf)) ELSE c

\* handleMessage that stores the key material of a welcome and sends no
\* tunnel request.
clientHandleMessageNoTunnel(c, message) ==
    IF IsStr(Get(message, S_type), S_welcome)
    THEN LET key == Get(message, S_encryptionKey)
             iv  == Get(message, S_encryptionIV)
             p1  == [c.peer EXCEPT !.clientId = Get(message, S_clientId)]
         IN  IF key.t # "str" THEN Side(p1, c.out)
             ELSE LET p2 == [p1 EXCEPT !.encryptionKey = Buf(FromHex(key.v))]
                  IN  IF iv.t # "str" THEN Side(p2, c.out)
                      ELSE Side([p2 EXCEPT !.encryptionIV = Buf(FromHex(iv.v))], c.out)
    ELSE c

\* VPNClient.prototype.handleMessage. Buffer.from of a key that is not a
\* string throws; the data handler's catch swallows it, the assignments made
\* before it stay.
clientHandleMessage(c, message) ==
    IF IsStr(Get(message, S_type), S_welcome)
    THEN LET key == Get(message, S_encryptionKey)
             iv  == Get(message, S_encryptionIV)
             p1  == [c.peer EXCEPT !.clientId = Get(message, S_clientId)]
         IN  IF key.t # "str" THEN Side(p1, c.out)
             ELSE LET p2 == [p1 EXCEPT !.encryptionKey = Buf(FromHex(key.v))]
                  IN  IF iv.t # "str" THEN Side(p2, c.out)
                      ELSE sendMessage(
                               Side([p2 EXCEPT !.encryptionIV = Buf(FromHex(iv.v))],
                                    c.out),
                               TunnelMessage)
    ELSE c

\* lines.forEach of the client's 'data' handler.
RECURSIVE clientLines(_, _)
clientLines(c, lines) ==
    IF Len(lines) = 0 THEN c
    ELSE LET parsed == JSONparse(Head(lines))
         IN  clientLines(
                 IF TrimsToText(Head(lines)) /\ parsed.ok /\ parsed.val.t # "null"
                 THEN clientHandleMessage(c, parsed.val)
                 ELSE c,
                 Tail(lines))

\* What the server has written to socket n from its i-th write on, as one
\* text.
RECURSIVE Unread(_, _)
Unread(written, i) ==
    IF i > Len(written) THEN << >> ELSE written[i] \o Unread(written, i + 1)

\* The client's 'data' handler, on all the text the server has written to
\* the socket and the client has not yet read. What is unread when the server
\* destroys the socket is lost with the connection.
ClientData(n) ==
    /\ ~sockets[n].destroyed
    /\ peers[n].nread < Len(sockets[n].written)
    /\ LET data  == Unread(sockets[n].written, peers[n].nread + 1)
           lines == Split(peers[n].buffer \o data)
           c     == clientLines(
                        Side([peers[n] EXCEPT !.bytesReceived = @ + Len(data),
                                              !.nread = Len(sockets[n].written),
                                              !.buffer = lines[Len(lines)]],
                             << >>),
                        Take(lines, Len(lines) - 1))
       IN  /\ peers' = [peers EXCEPT ![n] = c.peer]
           /\ wire' = Transmit(wire, n, c.out)
           /\ sent' = Recorded(sent, n, c.out)
    /\ UNCHANGED <<exitCode, ENCRYPTION_KEY, ENCRYPTION_IV, server, clients, clientIdCounter,
                   sockets, dispatched, sends,
                   seen>>

\* The client's 'data' handler, within the run's bound on such events.
ClientOnData(n) ==
    /\ reads < MaxReads
    /\ ClientData(n)
    /\ reads' = reads + 1

\* The client's 'end' handler: the server's side of the connection is gone
\* and the client learns of it.
ClientOnEnd(n) ==
    /\ sockets[n].destroyed
    /\ peers[n].connected
    /\ peers' = [peers EXCEPT ![n].connected = FALSE]
    /\ UNCHANGED <<exitCode, ENCRYPTION_KEY, ENCRYPTION_IV, server, clients, clientIdCounter,
                   sockets, wire, dispatched, sends, reads, sent, seen>>

\* The client's 'error' handler (a reset by the destroyed socket).
ClientOnError(n) ==
    /\ sockets[n].destroyed
    /\ peers[n].connected
    /\ peers' = [peers EXCEPT ![n].connected = FALSE]
    /\ UNCHANGED <<exitCode, ENCRYPTION_KEY, ENCRYPTION_IV, server, clients, clientIdCounter,
                   sockets, wire, dispatched, sends, reads, sent, seen>>

\* The plaintexts a user types: two bytes, and a whole block (two blocks of
\* ciphertext).
Plaintexts == {<<104, 105>>, [i \in 1..BlockSize |-> 96 + i]}

\* VPNClient.prototype.ping, Date.now() being timestamp.
ping(n, timestamp) ==
    /\ sends < MaxSends
    /\ LET c == sendMessage(Side(peers[n], << >>), PingMessage(timestamp))
       IN  /\ peers' = [peers EXCEPT ![n] = c.peer]
           /\ wire' = Transmit(wire, n, c.out)
           /\ sent' = Recorded(sent, n, c.out)
    /\ sends' = sends + 1
    /\ UNCHANGED <<exitCode, ENCRYPTION_KEY, ENCRYPTION_IV, server, clients, clientIdCounter,
                   sockets, dispatched, reads,
                   seen>>

\* The user's line that is no command: client.sendEncryptedData(input).
UserData(n, data) ==
    /\ sends < MaxSends
    /\ LET c == sendEncryptedData(Side(peers[n], << >>), data)
       IN  /\ peers' = [peers EXCEPT ![n] = c.peer]
           /\ wire' = Transmit(wire, n, c.out)
           /\ sent' = Recorded(sent, n, c.out)
    /\ sends' = sends + 1
    /\ UNCHANGED <<exitCode, ENCRYPTION_KEY, ENCRYPTION_IV, server, clients, clientIdCounter,
                   sockets, dispatched, reads,
                   seen>>

\* What a peer that is not this client may write: a data frame whose
\* ciphertext has its last byte changed, one cut short by a byte, a message
\* of a type the server does not know, and text that is not JSON.
Tampered(buf) == [buf EXCEPT ![Len(buf)] = (@ + 1) % ByteMod]

ForeignFrames ==
    { Stringify(DataMessage(Tampered(encrypt(<<104, 105>>)))) \o <<"\n">>,
      Stringify(DataMessage(Take(encrypt(<<104, 105>>), BlockSize - 1))) \o <<"\n">>,
      Stringify(Obj(<<Member(S_type, Str(S_hello))>>)) \o <<"\n">>,
      S_hello \o <<"\n">> }

ForeignWrite(n, text) ==
    /\ sends < MaxSends
    /\ wire' = Transmit(wire, n, text)
    /\ sent' = Recorded(sent, n, text)
    /\ sends' = sends + 1
    /\ UNCHANGED <<exitCode, ENCRYPTION_KEY, ENCRYPTION_IV, server, clients, clientIdCounter,
                   sockets, peers, dispatched, reads,
                   seen>>

\* --------------------------------------------------------- specification
Init ==
    /\ \E seed \in 1..MaxSeed :
          /\ ENCRYPTION_KEY = RandomBytes(KeyLen, seed)
          /\ ENCRYPTION_IV = RandomBytes(BlockSize, seed + MaxSeed)
    /\ server = "null"
    /\ exitCode = "none"
    /\ clients = NoClients
    /\ clientIdCounter = 0
    /\ sockets = << >>
    /\ wire = << >>
    /\ peers = << >>
    /\ dispatched = << >>
    /\ sends = 0
    /\ reads = 0
    /\ sent = << >>
    /\ seen = {}

Next ==
    \/ \E bind \in BindOutcomes : start(bind)
    \/ stop
    \/ OnExitTimer
    \/ handleConnection
    \/ \E n \in 1..Len(sockets) :
          \E k \in CutPoints(wire[n]), now \in 1..MaxTime : OnData(n, k, now)
    \/ \E n \in 1..Len(sockets) : OnEnd(n)
    \/ \E n \in 1..Len(sockets), gone \in BOOLEAN : OnError(n, gone)
    \/ \E n \in 1..Len(sockets) : ClientOnData(n)
    \/ \E n \in 1..Len(sockets), timestamp \in 1..MaxTime : ping(n, timestamp)
    \/ \E n \in 1..Len(sockets), data \in Plaintexts : UserData(n, data)
    \/ /\ sends < MaxSends
       /\ \E n \in 1..Len(sockets), text \in ForeignFrames : ForeignWrite(n, text)

Spec == Init /\ [][Next]_vars

\* The clients through the whole life of their connections: Next without the
\* peers that are not VPNClient, and with the clients' 'end' and 'error'
\* handlers, by which a client learns that its connection is gone. To the
\* server a client that knows it is disconnected is one that sends nothing.
ClientNext ==
    \/ \E bind \in BindOutcomes : start(bind)
    \/ stop
    \/ OnExitTimer
    \/ handleConnection
    \/ \E n \in 1..Len(sockets) :
          \E k \in CutPoints(wire[n]), now \in 1..MaxTime : OnData(n, k, now)
    \/ \E n \in 1..Len(sockets) : OnEnd(n)
    \/ \E n \in 1..Len(sockets), gone \in BOOLEAN : OnError(n, gone)
    \/ \E n \in 1..Len(sockets) : ClientOnData(n)
    \/ \E n \in 1..Len(sockets) : ClientOnEnd(n)
    \/ \E n \in 1..Len(sockets) : ClientOnError(n)
    \/ \E n \in 1..Len(sockets), timestamp \in 1..MaxTime : ping(n, timestamp)
    \/ \E n \in 1..Len(sockets), data \in Plaintexts : UserData(n, data)

ClientSpec == Init /\ [][ClientNext]_vars

\* The handshake of clients that stay connected: no end-of-stream, error or
\* shutdown, no peer other than VPNClient, every frame handed to the server's
\* 'data' handler whole and by itself, and no bound on what the clients read.
\* The event loops of both processes run every handler whose event is
\* pending: weak fairness of the two 'data' handlers of every connection.
\* ServerDataPending(n) and ClientDataPending(n) are the guards of the two
\* handlers, ENABLED <<LiveOnData(n)>>_vars and
\* ENABLED <<LiveClientOnData(n)>>_vars written as state predicates, so that
\* each conjunct of Fairness is WF_vars of its handler spelled out.
LiveOnData(n) ==
    /\ n \in 1..Len(sockets)
    /\ Len(wire[n]) > 0
    /\ \E now \in 1..MaxTime : OnData(n, FirstNewline(wire[n]), now)

LiveClientOnData(n) ==
    /\ n \in 1..Len(sockets)
    /\ ClientData(n)
    /\ UNCHANGED reads

LiveNext ==
    \/ \E bind \in BindOutcomes : start(bind)
    \/ handleConnection
    \/ \E n \in 1..MaxConnections : LiveOnData(n)
    \/ \E n \in 1..MaxConnections : LiveClientOnData(n)
    \/ \E n \in 1..Len(sockets), timestamp \in 1..MaxTime : ping(n, timestamp)
    \/ \E n \in 1..Len(sockets), data \in Plaintexts : UserData(n, data)

ServerDataPending(n) ==
    /\ n \in 1..Len(sockets)
    /\ exitCode = "none"
    /\ ~sockets[n].destroyed
    /\ Len(wire[n]) > 0

ClientDataPending(n) ==
    /\ n \in 1..Len(sockets)
    /\ ~sockets[n].destroyed
    /\ peers[n].nread < Len(sockets[n].written)

Fairness ==
    \A n \in 1..MaxConnections :
        /\ []<>(~ServerDataPending(n)) \/ []<><<LiveOnData(n)>>_vars
        /\ []<>(~ClientDataPending(n)) \/ []<><<LiveClientOnData(n)>>_vars

LiveSpec == Init /\ [][LiveNext]_vars /\ Fairness

\* ---------------------------------------------------- reading the history
\* The message a written or sent text holds (undefined when the text is not
\* JSON), its type and its fields.
Message(text) == LET parsed == JSONparse(text) IN IF parsed.ok THEN parsed.val ELSE Undefined

TypeOf(text) == Get(Message(text), S_type)

HasType(text, type) == IsStr(TypeOf(text), type)

Field(text, key) == Get(Message(text), key)

\* What a step wrote to socket m.
NewWrites(m) ==
    SubSeq(sockets'[m].written, Len(sockets[m].written) + 1, Len(sockets'[m].written))

\* A step in which socket n's 'data' handler took a chunk off the wire (the
\* handlers of end-of-stream, errors and shutdown add to seen), and the chunk
\* it took.
DataStep(n) == Len(wire'[n]) < Len(wire[n]) /\ seen' = seen

Chunk(n) == Take(wire[n], Len(wire[n]) - Len(wire'[n]))

Registered(n) == sockets[n].clientId \in DOMAIN clients

\* The sockets of the sessions in the registry.
LiveSockets == {clients[id].socket : id \in DOMAIN clients}

\* A data message with encrypted = true and a hex payload, and whether the
\* payload decrypts under the server's key.
IsEncryptedData(message) ==
    /\ message.t = "obj"
    /\ IsStr(Get(message, S_type), S_data)
    /\ Get(message, S_encrypted).t = "bool"
    /\ Get(message, S_encrypted).v
    /\ Get(message, S_payload).t = "str"
    /\ Len(Get(message, S_payload).v) > 0

Decrypts(message) ==
    Decipher(ENCRYPTION_KEY, ENCRYPTION_IV, FromHex(Get(message, S_payload).v)).ok

DecryptableData(text) ==
    LET message == Message(text) IN IsEncryptedData(message) /\ Decrypts(message)

UndecryptableData(text) ==
    LET message == Message(text) IN IsEncryptedData(message) /\ ~Decrypts(message)

\* ---------------------------------------------------------------- claims
\* C1. Exclude-sender broadcast: when the server handles a data message from
\* a registered session A with encrypted = true whose payload decrypts, every
\* other session in the registry is written exactly one relay message and
\* neither A nor any socket outside the registry is written anything.
C1_ExcludeSenderBroadcast ==
    [][\A n \in 1..Len(sockets) :
          (DataStep(n) /\ Registered(n) /\ DecryptableData(Chunk(n)))
              => \A m \in 1..Len(sockets) :
                    IF m # n /\ m \in LiveSockets
                    THEN /\ Len(NewWrites(m)) = 1
                         /\ HasType(NewWrites(m)[1], S_relay)
                    ELSE NewWrites(m) = << >>]_vars

\* Three sessions: the second and the third have each been written one relay
\* from the first, which has been written none.
C1_Witness ==
    /\ Len(sockets) = 3
    /\ DOMAIN clients = {1, 2, 3}
    /\ \A m \in {2, 3} :
          /\ Len(sockets[m].written) = 2
          /\ HasType(sockets[m].written[2], S_relay)
          /\ Field(sockets[m].written[2], S_fromClient) = Num(1)
    /\ \A i \in 1..Len(sockets[1].written) : ~HasType(sockets[1].written[i], S_relay)

\* C2. Frame reconstruction: a message the peer serialized as JSON plus a
\* newline, once all of it has reached a registered session's socket in
\* whatever chunks, has been dispatched exactly once, equal to what was sent.
C2_FrameReconstruction ==
    \A n \in 1..Len(sockets) :
        (/\ Registered(n)
         /\ Len(sent[n]) = 1
         /\ JSONparse(sent[n][1]).ok
         /\ wire[n] = << >>)
            => dispatched[n] = <<JSONparse(sent[n][1]).val>>

\* The timestamps of the pings among dispatched messages, and of the pongs
\* among written texts, in order.
IsPing(message) == IsStr(Get(message, S_type), S_ping)

IsPongText(text) == HasType(text, S_pong)

RECURSIVE PingStamps(_)
PingStamps(messages) ==
    IF Len(messages) = 0 THEN << >>
    ELSE (IF IsPing(Head(messages)) THEN <<Get(Head(messages), S_timestamp)>> ELSE << >>)
             \o PingStamps(Tail(messages))

RECURSIVE PongStamps(_)
PongStamps(texts) ==
    IF Len(texts) = 0 THEN << >>
    ELSE (IF IsPongText(Head(texts)) THEN <<Field(Head(texts), S_timestamp)>> ELSE << >>)
             \o PongStamps(Tail(texts))

\* C3. Ping/Pong identity: the pongs written to a session carry, in order,
\* the timestamps of the pings dispatched from it.
C3_PingPongIdentity ==
    \A n \in 1..Len(sockets) :
        PongStamps(sockets[n].written) = PingStamps(dispatched[n])

\* C4. Identity uniqueness: the k-th accepted connection has identity k, in
\* its handlers and in its registry entry, whatever was removed before it was
\* accepted; the counter is the number of connections accepted.
C4_IdentityUniqueness ==
    /\ clientIdCounter = Len(sockets)
    /\ \A n \in 1..Len(sockets) : sockets[n].clientId = n
    /\ \A id \in DOMAIN clients : clients[id].socket = id /\ clients[id].id = id

\* A third connection accepted with the first two sessions removed.
C4_Witness ==
    /\ Len(sockets) = 3
    /\ DOMAIN clients = {3}
    /\ sockets[1].destroyed /\ sockets[2].destroyed

\* C5. Registry membership: the identities in the registry are those of the
\* accepted sockets that have not seen end-of-stream, an error or shutdown;
\* every entry is stored under its own identity with connected = true, and
\* no two entries share an identity.
C5_RegistryMembership ==
    /\ DOMAIN clients = {sockets[n].clientId : n \in (1..Len(sockets)) \ seen}
    /\ \A id \in DOMAIN clients : clients[id].id = id /\ clients[id].connected
    /\ \A a, b \in DOMAIN clients : clients[a].id = clients[b].id => a = b

\* A session removed after an error or end-of-stream while another stays.
C5_Witness ==
    /\ server = "listening"
    /\ seen # {}
    /\ DOMAIN clients # {}
    /\ Len(sockets) = 3

\* C6. Deregistration idempotence: removeClient applied again to an identity
\* already removed returns the registry and every socket as they were, and no
\* socket has had destroy() called more than once.
C6_DeregistrationIdempotence ==
    \A n \in 1..Len(sockets) :
        LET here == World(clients, sockets)
            once == removeClient(here, sockets[n].clientId)
        IN  /\ removeClient(once, sockets[n].clientId) = once
            /\ n \in seen => once = here
            /\ sockets[n].destroyCalls <= 1

\* A session removed by end-of-stream (its socket destroyed by removeClient)
\* with another session still in the registry.
C6_Witness ==
    \E n \in seen :
        /\ sockets[n].destroyCalls = 1
        /\ DOMAIN clients # {}
        /\ server = "listening"

\* C7. Decrypt failure containment: when the server handles a data message
\* whose payload does not decrypt, nothing is written to any socket and the
\* sender stays in the registry, connected, its socket not destroyed.
C7_DecryptFailureContained ==
    [][\A n \in 1..Len(sockets) :
          (DataStep(n) /\ Registered(n) /\ UndecryptableData(Chunk(n)))
              => /\ \A m \in 1..Len(sockets) : NewWrites(m) = << >>
                 /\ sockets[n].clientId \in DOMAIN clients'
                 /\ clients'[sockets[n].clientId].connected
                 /\ ~sockets'[n].destroyed
                 /\ DOMAIN clients' = DOMAIN clients]_vars

\* A registered session whose undecryptable data message has been dispatched,
\* with two other sessions in the registry and nothing but their welcomes
\* written to them.
C7_Witness ==
    \E n \in 1..Len(sockets) :
        /\ Registered(n)
        /\ \E i \in 1..Len(dispatched[n]) :
              IsEncryptedData(dispatched[n][i]) /\ ~Decrypts(dispatched[n][i])
        /\ Cardinality(DOMAIN clients) = 3
        /\ \A m \in 1..Len(sockets) : m # n => Len(sockets[m].written) = 1

\* C8. Relay content: when the server handles the data message a client made
\* by encrypting plaintext p under the key of its welcome, every message
\* written in that step is a relay whose fromClient is the sender's identity
\* and whose data hex-decodes to p.
C8_RelayContent ==
    [][\A n \in 1..Len(sockets) : \A p \in Plaintexts :
          (/\ DataStep(n)
           /\ Registered(n)
           /\ clientEncrypt(peers[n], p).ok
           /\ Chunk(n) = Stringify(DataMessage(clientEncrypt(peers[n], p).buf)) \o <<"\n">>)
              => \A m \in 1..Len(sockets) : \A i \in 1..Len(NewWrites(m)) :
                    /\ HasType(NewWrites(m)[i], S_relay)
                    /\ Field(NewWrites(m)[i], S_fromClient) = Num(sockets[n].clientId)
                    /\ Field(NewWrites(m)[i], S_data).t = "str"
                    /\ FromHex(Field(NewWrites(m)[i], S_data).v) = p]_vars

\* A relay written to a session that hex-decodes to the two-block plaintext
\* another session's client encrypted and sent.
C8_Witness ==
    \E n, m \in 1..Len(sockets) :
        /\ n # m
        /\ Len(sent[n]) > 0
        /\ HasType(sent[n][Len(sent[n])], S_data)
        /\ Len(sockets[m].written) = 2
        /\ HasType(sockets[m].written[2], S_relay)
        /\ Field(sockets[m].written[2], S_fromClient) = Num(n)
        /\ FromHex(Field(sockets[m].written[2], S_data).v) = [i \in 1..BlockSize |-> 96 + i]

\* Every welcome among the written texts carries the server's key and IV.
WelcomesCarryKey ==
    \A n \in 1..Len(sockets) : \A i \in 1..Len(sockets[n].written) :
        LET message == Message(sockets[n].written[i])
        IN  IsStr(Get(message, S_type), S_welcome)
                => /\ Get(message, S_encryptionKey) = Str(ToHex(ENCRYPTION_KEY))
                   /\ Get(message, S_encryptionIV) = Str(ToHex(ENCRYPTION_IV))

\* C9. Process-wide key: every welcome written to any socket carries the hex
\* of the server's key and IV, and no step changes the key or the IV.
C9_ProcessWideKey ==
    /\ []WelcomesCarryKey
    /\ [][ENCRYPTION_KEY' = ENCRYPTION_KEY /\ ENCRYPTION_IV' = ENCRYPTION_IV]_vars

\* Three welcomes written, the last after the first session was removed and
\* a relay was decrypted.
C9_Witness ==
    /\ Len(sockets) = 3
    /\ 1 \in seen
    /\ \A n \in 1..3 : HasType(sockets[n].written[1], S_welcome)
    /\ \E n \in 1..3 : Len(dispatched[n]) > 0

\* C10. Welcome first: the first text written to every accepted socket is a
\* welcome carrying that socket's identity, and no later text is a welcome.
C10_WelcomeFirst ==
    \A n \in 1..Len(sockets) :
        /\ Len(sockets[n].written) >= 1
        /\ LET message == Message(sockets[n].written[1])
           IN  /\ IsStr(Get(message, S_type), S_welcome)
               /\ Get(message, S_clientId) = Num(sockets[n].clientId)
        /\ \A i \in 2..Len(sockets[n].written) :
              ~HasType(sockets[n].written[i], S_welcome)

\* A socket written a welcome, then tunnel_established, then a pong.
C10_Witness ==
    \E n \in 1..Len(sockets) :
        /\ Len(sockets[n].written) = 3
        /\ HasType(sockets[n].written[2], S_tunnel_established)
        /\ HasType(sockets[n].written[3], S_pong)

\* C11. Tunnel handshake reply: when the server handles a message of type
\* tunnel from a registered session, that session's socket is written exactly
\* one tunnel_established message with status "ready" and no other socket is
\* written anything.
C11_TunnelReply ==
    [][\A n \in 1..Len(sockets) :
          (DataStep(n) /\ Registered(n) /\ HasType(Chunk(n), S_tunnel))
              => \A m \in 1..Len(sockets) :
                    IF m = n
                    THEN /\ Len(NewWrites(m)) = 1
                         /\ HasType(NewWrites(m)[1], S_tunnel_established)
                         /\ Field(NewWrites(m)[1], S_status) = Str(S_ready)
                    ELSE NewWrites(m) = << >>]_vars

\* Three sessions in the registry; the second one's tunnel request has been
\* handled and answered, the others have been written their welcomes only.
C11_Witness ==
    /\ DOMAIN clients = {1, 2, 3}
    /\ \E i \in 1..Len(dispatched[2]) : IsStr(Get(dispatched[2][i], S_type), S_tunnel)
    /\ Len(sockets[2].written) = 2
    /\ HasType(sockets[2].written[2], S_tunnel_established)
    /\ Len(sockets[1].written) = 1
    /\ Len(sockets[3].written) = 1

\* Whether a tunnel request of socket n's session has been handled, and the
\* relay text the server makes of a data frame from socket n.
TunnelRequested(n) ==
    \E i \in 1..Len(dispatched[n]) : IsStr(Get(dispatched[n][i], S_type), S_tunnel)

RelayText(n, text) ==
    Stringify(RelayMessage(sockets[n].clientId,
                           decrypt(FromHex(Field(text, S_payload).v)).buf)) \o <<"\n">>

\* C12. Data before tunnel: when the server handles a decryptable data
\* message from a registered session, every other session in the registry is
\* written the relay of it and nothing else is written, and this is so both
\* when a tunnel request of the sender has been handled before and when none
\* has.
C12_DataBeforeTunnel ==
    [][\A n \in 1..Len(sockets) :
          (DataStep(n) /\ Registered(n) /\ DecryptableData(Chunk(n)))
              => LET outcome == [m \in 1..Len(sockets) |->
                                    IF m # n /\ m \in LiveSockets
                                    THEN <<RelayText(n, Chunk(n))>> ELSE << >>]
                 IN  /\ ~TunnelRequested(n)
                            => \A m \in 1..Len(sockets) : NewWrites(m) = outcome[m]
                     /\ TunnelRequested(n)
                            => \A m \in 1..Len(sockets) : NewWrites(m) = outcome[m]]_vars

\* A session whose tunnel request arrived cut in two and was never handled:
\* its data message has been handled and relayed to another session.
C12_Witness ==
    \E n, m \in 1..Len(sockets) :
        /\ n # m
        /\ Registered(n)
        /\ Len(dispatched[n]) = 1
        /\ IsEncryptedData(dispatched[n][1])
        /\ ~TunnelRequested(n)
        /\ \E i \in 1..Len(sent[n]) : HasType(sent[n][i], S_tunnel)
        /\ Len(sockets[m].written) = 2
        /\ HasType(sockets[m].written[2], S_relay)
        /\ Field(sockets[m].written[2], S_fromClient) = Num(sockets[n].clientId)

\* The complete frames of a chunk that ends in a newline, and whether each
\* of them is a JSON message the type switch can take.
FramesOf(chunk) == Take(Split(chunk), Len(Split(chunk)) - 1)

WholeFrames(chunk) ==
    /\ Len(chunk) > 0
    /\ chunk[Len(chunk)] = "\n"
    /\ \A i \in 1..Len(FramesOf(chunk)) : Dispatches(JSONparse(FramesOf(chunk)[i]))

\* C13. Several frames in one chunk: when one chunk a registered session's
\* socket receives holds two or more complete newline-terminated JSON
\* messages, each is dispatched as its own message, in order.
C13_SeveralFramesInOneChunk ==
    [][\A n \in 1..Len(sockets) :
          (/\ DataStep(n)
           /\ Registered(n)
           /\ WholeFrames(Chunk(n))
           /\ Len(FramesOf(Chunk(n))) >= 2)
              => dispatched'[n] = dispatched[n]
                     \o [i \in 1..Len(FramesOf(Chunk(n))) |->
                            JSONparse(FramesOf(Chunk(n))[i]).val]]_vars

\* The registry with the bytes of a chunk added to one session's
\* bytesReceived and nothing else changed.
CountedOnly(id, chunk) == [clients EXCEPT ![id].bytesReceived = @ + Len(chunk)]

\* C14. Parse error containment: when a registered session's socket receives
\* bytes that are not valid JSON, nothing is written to any socket, the
\* registry changes in the sender's bytesReceived only and no socket is
\* destroyed; and a well-formed tunnel request or ping that arrives after
\* bytes that were dropped is dispatched and answered.
C14_ParseErrorContained ==
    [][\A n \in 1..Len(sockets) :
          LET id == sockets[n].clientId
          IN  /\ (DataStep(n) /\ Registered(n) /\ ~JSONparse(Chunk(n)).ok)
                     => /\ \A m \in 1..Len(sockets) : NewWrites(m) = << >>
                        /\ clients' = CountedOnly(id, Chunk(n))
                        /\ sockets' = sockets
                        /\ ~sockets'[n].destroyed
              /\ (/\ DataStep(n)
                  /\ Registered(n)
                  /\ clients[id].bytesReceived > 0
                  /\ dispatched[n] = << >>
                  /\ HasType(Chunk(n), S_tunnel) \/ HasType(Chunk(n), S_ping))
                     => /\ dispatched'[n] = <<Message(Chunk(n))>>
                        /\ Len(NewWrites(n)) = 1
                        /\ HasType(NewWrites(n)[1], S_tunnel_established)
                               \/ HasType(NewWrites(n)[1], S_pong)]_vars

\* A registered session that sent text that is not JSON and then its tunnel
\* request: the request has been dispatched and answered.
C14_Witness ==
    \E n \in 1..Len(sockets) :
        /\ Registered(n)
        /\ Len(sent[n]) = 2
        /\ sent[n][1] = S_hello \o <<"\n">>
        /\ HasType(sent[n][2], S_tunnel)
        /\ wire[n] = << >>
        /\ Len(dispatched[n]) = 1
        /\ Len(sockets[n].written) = 2
        /\ HasType(sockets[n].written[2], S_tunnel_established)
        /\ ~sockets[n].destroyed

\* A step in which socket n's 'end' or 'error' handler ran for the first
\* time (shutdown changes server).
EndOrErrorStep(n) == n \notin seen /\ seen' = seen \cup {n} /\ server' = server

\* C15. Transport error containment: an error or end-of-stream on one
\* session removes it from the registry and leaves its socket destroyed;
\* every other session's registry entry (byte counters included), socket and
\* text in flight are as before.
C15_TransportErrorContained ==
    [][\A n \in 1..Len(sockets) :
          EndOrErrorStep(n)
              => /\ sockets[n].clientId \notin DOMAIN clients'
                 /\ sockets'[n].destroyed
                 /\ DOMAIN clients' = DOMAIN clients \ {sockets[n].clientId}
                 /\ \A id \in DOMAIN clients' : clients'[id] = clients[id]
                 /\ \A m \in 1..Len(sockets) :
                        m # n => sockets'[m] = sockets[m] /\ wire'[m] = wire[m]]_vars

\* A session removed after an error or end-of-stream while another session,
\* which has received and been sent bytes, is still in the registry with its
\* socket open.
C15_Witness ==
    \E n, m \in 1..Len(sockets) :
        /\ n \in seen
        /\ sockets[n].destroyed
        /\ ~Registered(n)
        /\ server = "listening"
        /\ Registered(m)
        /\ ~sockets[m].destroyed
        /\ clients[sockets[m].clientId].bytesReceived > 0
        /\ clients[sockets[m].clientId].bytesSent > 0

\* A step in which stop() ran.
StopStep == server # "closed" /\ server' = "closed"

\* C16. Shutdown: stop() removes every session that is in the registry when
\* it is called and destroys each one's socket, and the listener is closed
\* with the registry already empty; from then on the registry is empty, no
\* accepted socket is open and no connection is accepted.
C16_Shutdown ==
    /\ [][StopStep
             => /\ clients' = NoClients
                /\ \A id \in DOMAIN clients :
                       /\ ~sockets[clients[id].socket].destroyed
                       /\ sockets'[clients[id].socket].destroyed
                       /\ sockets'[clients[id].socket].destroyCalls = 1]_vars
    /\ [](server = "closed"
             => /\ clients = NoClients
                /\ \A n \in 1..Len(sockets) : sockets[n].destroyed)
    /\ [][server = "closed" => server' = "closed" /\ Len(sockets') = Len(sockets)]_vars

\* The listener closed after three sessions were accepted, one of which had
\* a tunnel request answered: the registry is empty and the three sockets
\* are destroyed.
C16_Witness ==
    /\ server = "closed"
    /\ Len(sockets) = 3
    /\ clients = NoClients
    /\ \A n \in 1..3 : sockets[n].destroyed /\ sockets[n].destroyCalls = 1
    /\ \E n \in 1..3 : Len(sockets[n].written) = 2

\* C17. Bind failure is fatal: once the listener has failed to bind, the
\* process has terminated with a non-zero exit status.
C17_BindFailureFatal ==
    server = "failed" => exitCode \notin {"none", "0"}

\* A well-formed JSON message whose type is none of ping, data and tunnel.
UnknownType(text) ==
    /\ Dispatches(JSONparse(text))
    /\ \A type \in {S_ping, S_data, S_tunnel} : ~HasType(text, type)

\* C18. Unknown message types are ignored: when the server handles a
\* well-formed JSON message of a type other than ping, data and tunnel,
\* nothing is written to any socket, no session is removed, no socket is
\* destroyed, and the registry changes in the sender's bytesReceived only.
C18_UnknownTypeIgnored ==
    [][\A n \in 1..Len(sockets) :
          (DataStep(n) /\ Registered(n) /\ UnknownType(Chunk(n)))
              => /\ \A m \in 1..Len(sockets) : NewWrites(m) = << >>
                 /\ DOMAIN clients' = DOMAIN clients
                 /\ clients' = CountedOnly(sockets[n].clientId, Chunk(n))
                 /\ sockets' = sockets
                 /\ dispatched'[n] = Append(dispatched[n], Message(Chunk(n)))]_vars

\* A message of type hello handled for one of three registered sessions:
\* its bytes are counted and nothing but the welcomes has been written.
C18_Witness ==
    \E n \in 1..Len(sockets) :
        /\ Cardinality(DOMAIN clients) = 3
        /\ Registered(n)
        /\ dispatched[n] = <<Obj(<<Member(S_type, Str(S_hello))>>)>>
        /\ clients[sockets[n].clientId].bytesReceived
               = Len(Stringify(Obj(<<Member(S_type, Str(S_hello))>>))) + 1
        /\ \A m \in 1..Len(sockets) : Len(sockets[m].written) = 1 /\ ~sockets[m].destroyed

\* Chunks that may be handed to the 'data' handler of socket n: the texts its
\* peer has sent, a tunnel request and a ping.
Inbound(n) ==
    {sent[n][i] : i \in 1..Len(sent[n])}
        \cup {Stringify(TunnelMessage) \o <<"\n">>, Stringify(PingMessage(1)) \o <<"\n">>}

\* handleClientData returns the registry and the sockets as they are for
\* every chunk under the identity of a socket that is not in the registry.
DropsInboundOfRemoved ==
    \A n \in 1..Len(sockets) :
        ~Registered(n)
            => \A data \in Inbound(n), now \in 1..MaxTime :
                  handleClientData(World(clients, sockets), sockets[n].clientId, data, now)
                      = World(clients, sockets)

\* C19. No delivery to removed sessions: socket.write is never called on a
\* destroyed socket, no step writes to the socket of a session that is not
\* in the registry (a broadcast after the removal skips it), and
\* handleClientData under a removed identity changes nothing and sends
\* nothing.
C19_NoDeliveryToRemoved ==
    /\ [](\A n \in 1..Len(sockets) : sockets[n].writesAfterDestroy = 0)
    /\ [][\A n \in 1..Len(sockets) :
              ~Registered(n) => sockets'[n] = sockets[n]]_vars
    /\ []DropsInboundOfRemoved

\* The first session was removed before a data message of another session
\* was relayed: a later session has been written the relay, the removed one
\* has its welcome only.
C19_Witness ==
    /\ Len(sockets) = 3
    /\ 1 \in seen
    /\ ~Registered(1)
    /\ Len(sockets[1].written) = 1
    /\ sockets[1].writesAfterDestroy = 0
    /\ \E m \in {2, 3} :
          /\ Registered(m)
          /\ \E i \in 1..Len(sockets[m].written) : HasType(sockets[m].written[i], S_relay)

\* What the client of socket n has read of the texts written to it, the
\* tunnel requests it has sent, and whether it has read a text of a type.
ReadBy(n) == SubSeq(sockets[n].written, 1, peers[n].nread)

TunnelsSent(n) == {i \in 1..Len(sent[n]) : HasType(sent[n][i], S_tunnel)}

HasRead(n, type) == \E i \in 1..Len(ReadBy(n)) : HasType(ReadBy(n)[i], type)

\* In every state: a client that has not read its welcome has sent no tunnel
\* request, one that has read it has sent exactly one, and
\* tunnel_established is read after the welcome only.
HandshakeOrder ==
    \A n \in 1..Len(sockets) :
        /\ ~HasRead(n, S_welcome) => TunnelsSent(n) = {}
        /\ HasRead(n, S_welcome) => Cardinality(TunnelsSent(n)) = 1
        /\ HasRead(n, S_tunnel_established) => HasRead(n, S_welcome)

\* C20. Handshake liveness: every client that connects and stays connected,
\* its frames delivered whole and its handlers run fairly, eventually reads
\* its welcome and eventually reads tunnel_established; it sends no tunnel
\* request before it has read the welcome and exactly one after.
C20_HandshakeLiveness ==
    /\ []HandshakeOrder
    /\ \A n \in 1..MaxConnections :
          /\ (n \in 1..Len(sockets)) ~> (n \in 1..Len(sockets) /\ HasRead(n, S_welcome))
          /\ (n \in 1..Len(sockets))
                 ~> (n \in 1..Len(sockets) /\ HasRead(n, S_tunnel_established))

\* Three clients have each read their welcome, sent one tunnel request and
\* read tunnel_established.
C20_Witness ==
    /\ Len(sockets) = 3
    /\ \A n \in 1..3 :
          /\ HasRead(n, S_welcome)
          /\ Cardinality(TunnelsSent(n)) = 1
          /\ HasRead(n, S_tunnel_established)

\* sendEncryptedData of a client whose key or IV is unset, and of one that is
\* not connected, returns the client as it was with nothing written.
SendsNothing(n) ==
    \A data \in Plaintexts :
        sendEncryptedData(Side(peers[n], << >>), data) = Side(peers[n], << >>)

RefusedSends ==
    \A n \in 1..Len(sockets) :
        /\ (~peers[n].encryptionKey.ok \/ ~peers[n].encryptionIV.ok) => SendsNothing(n)
        /\ ~peers[n].connected => SendsNothing(n)

\* C21. No client data before key material: a step in which a client puts a
\* data message on the wire starts in a state where it has read its welcome
\* and holds the key and the IV; a client that is not connected puts nothing
\* on the wire and its bytesSent does not change; and sendEncryptedData with
\* the key or IV unset, or not connected, sends nothing and leaves bytesSent
\* as it is.
C21_NoDataBeforeKey ==
    /\ [][\A n \in 1..Len(sockets) :
              /\ (/\ Len(sent'[n]) = Len(sent[n]) + 1
                  /\ HasType(sent'[n][Len(sent'[n])], S_data))
                     => /\ HasRead(n, S_welcome)
                        /\ peers[n].encryptionKey.ok
                        /\ peers[n].encryptionIV.ok
              /\ ~peers[n].connected
                     => /\ peers'[n].bytesSent = peers[n].bytesSent
                        /\ sent'[n] = sent[n]
                        /\ Len(wire'[n]) <= Len(wire[n])]_vars
    /\ []RefusedSends

\* The user of a connected client has typed a line before the client read
\* its welcome: the one send of the run has put nothing on any wire and no
\* client has counted a byte sent.
C21_Witness ==
    /\ sends = 1
    /\ Len(sockets) = 2
    /\ \A n \in 1..Len(sockets) :
          /\ peers[n].connected
          /\ ~peers[n].encryptionKey.ok
          /\ peers[n].bytesSent = 0
          /\ sent[n] = << >>
          /\ wire[n] = << >>

\* The total length of the texts written to a socket after its first, and
\* that total over a set of sockets.
RECURSIVE LengthFrom(_, _)
LengthFrom(texts, i) ==
    IF i > Len(texts) THEN 0 ELSE Len(texts[i]) + LengthFrom(texts, i + 1)

RECURSIVE RepliesLength(_)
RepliesLength(S) ==
    IF S = {} THEN 0
    ELSE LET n == CHOOSE m \in S : TRUE
         IN  LengthFrom(sockets[n].written, 2) + RepliesLength(S \ {n})

\* In every state: the bytesSent of a session in the registry is the length
\* of the frames written to its socket after the welcome, each of them a
\* pong, a tunnel_established or a relay, and getStats reports as
\* totalBytesSent the length of those frames over the registry's sessions.
SentBytesCounted ==
    /\ \A id \in DOMAIN clients :
          LET written == sockets[clients[id].socket].written
          IN  /\ HasType(written[1], S_welcome)
              /\ clients[id].bytesSent = LengthFrom(written, 2)
              /\ \A i \in 2..Len(written) :
                     \E type \in {S_pong, S_tunnel_established, S_relay} :
                        HasType(written[i], type)
    /\ getStats(clients).totalBytesSent = RepliesLength(LiveSockets)
    /\ getStats(clients).connectedClients = Cardinality(DOMAIN clients)

\* C22. Sent-byte accounting: a live session's bytesSent is the total length
\* of the pong, tunnel_established and relay frames written to it, without
\* the welcome frame; getStats' totalBytesSent is the sum over the sessions
\* in the registry, and the removal of a session lowers it by that session's
\* bytesSent.
C22_SentByteAccounting ==
    /\ []SentBytesCounted
    /\ [][\A n \in 1..Len(sockets) :
              (EndOrErrorStep(n) /\ Registered(n))
                  => getStats(clients').totalBytesSent
                         = getStats(clients).totalBytesSent
                               - clients[sockets[n].clientId].bytesSent]_vars

\* One session in the registry, written its welcome and a tunnel_established
\* that getStats counts; another, which had been written a relay, removed.
C22_Witness ==
    \E n, m \in 1..Len(sockets) :
        /\ DOMAIN clients = {sockets[n].clientId}
        /\ Len(sockets[n].written) = 2
        /\ HasType(sockets[n].written[2], S_tunnel_established)
        /\ getStats(clients).totalBytesSent = Len(sockets[n].written[2])
        /\ m \in seen
        /\ Len(sockets[m].written) = 2
        /\ HasType(sockets[m].written[2], S_relay)

====
